---- MODULE Spec2Model ----
(***************************************************************************)
(* Model of homeassistant/components/homekit/util.py: the per-entity       *)
(* configuration validator, the media-player feature check, the setup      *)
(* notification helpers and the numeric conversions.                       *)
(*                                                                         *)
(* Python values are tagged records [t, v]; a str that the code takes      *)
(* apart (an entity id, the argument of float()) is a sequence of          *)
(* one-character strings; a number with a fraction is an integer count of  *)
(* a fixed decimal unit (temperatures in 1/100 degree, densities in 1/10). *)
(***************************************************************************)
EXTENDS Integers, Sequences, FiniteSets, TLC

VARIABLES
    pc,             \* "idle" before the call, "done" after it
    op,             \* the function that was called
    arg,            \* its arguments as they were when the call was made
    ret,            \* [raised |-> exception name or "", v |-> returned value]
    values,         \* the caller's argument object as it is after the call
    log,            \* the records the call handed to _LOGGER
    notifications,  \* persistent_notification: the notifications held, one per id
    last_call,      \* the last setup-message helper called
    calls           \* number of helper calls made so far

vars == <<pc, op, arg, ret, values, log, notifications, last_call, calls>>

(***************************** Python values *******************************)

PyNone == [t |-> "none", v |-> ""]
PyStr(s) == [t |-> "str", v |-> s]
PyList(s) == [t |-> "list", v |-> s]
PyDict(f) == [t |-> "dict", v |-> f]

EmptyDict == PyDict(<<>>)

IsDict(x) == x.t = "dict"

Returned(x) == [raised |-> "", v |-> x]
Raised(e) == [raised |-> e, v |-> PyNone]

NoCall == [raised |-> "", v |-> PyNone]

Abs(n) == IF n < 0 THEN -n ELSE n

(*************************** density_to_air_quality ************************)

\* Largest density tried, in 1/10 ug/m3.
MaxDensity == 1600

\* Densities are counted in tenths, so the code's thresholds are taken times 10.
Densities == (0 - 50) .. MaxDensity

density_to_air_quality_lt(density) ==
    IF density < 35 * 10 THEN 1
    ELSE IF density < 75 * 10 THEN 2
    ELSE IF density < 115 * 10 THEN 3
    ELSE IF density < 150 * 10 THEN 4
    ELSE 5

density_to_air_quality(density) ==
    IF density <= 35 * 10 THEN 1
    ELSE IF density <= 75 * 10 THEN 2
    ELSE IF density <= 115 * 10 THEN 3
    ELSE IF density <= 150 * 10 THEN 4
    ELSE 5

CallDensity(d) ==
    /\ pc = "idle"
    /\ pc' = "done"
    /\ op' = "density_to_air_quality"
    /\ arg' = d
    /\ ret' = Returned(density_to_air_quality(d))
    /\ values' = d
    /\ log' = <<>>
    /\ UNCHANGED <<notifications, last_call, calls>>

(*********************** validate_media_player_features ********************)

SUPPORT_PAUSE == 1
SUPPORT_SEEK == 2
SUPPORT_VOLUME_MUTE == 8
SUPPORT_TURN_ON == 128
SUPPORT_TURN_OFF == 256
SUPPORT_STOP == 4096
SUPPORT_PLAY == 16384

FEATURE_ON_OFF == "on_off"
FEATURE_PLAY_PAUSE == "play_pause"
FEATURE_PLAY_STOP == "play_stop"
FEATURE_TOGGLE_MUTE == "toggle_mute"

\* Python's & and | on non-negative ints, bit by bit.
RECURSIVE BitAnd(_, _)
BitAnd(a, b) ==
    IF a = 0 \/ b = 0 THEN 0
    ELSE (a % 2) * (b % 2) + 2 * BitAnd(a \div 2, b \div 2)

RECURSIVE BitOr(_, _)
BitOr(a, b) ==
    IF a = 0 THEN b
    ELSE IF b = 0 THEN a
    ELSE (IF a % 2 = 1 \/ b % 2 = 1 THEN 1 ELSE 0) + 2 * BitOr(a \div 2, b \div 2)

\* dict.get(key, default)
DictGetDefault(d, key, default) == IF key \in DOMAIN d THEN d[key] ELSE default

\* list.append under a condition that is a Python truth test of an int
AppendIf(modes, test, name) == IF test # 0 THEN Append(modes, name) ELSE modes

RECURSIVE Unsupported(_, _)
Unsupported(feature_list, supported_modes) ==
    IF feature_list = <<>> THEN <<>>
    ELSE LET feature == Head(feature_list)
             rest == Unsupported(Tail(feature_list), supported_modes)
         IN IF \E i \in 1..Len(supported_modes) : supported_modes[i] = feature
            THEN rest
            ELSE <<feature>> \o rest

supported_modes_play_only(features) ==
    LET m1 == AppendIf(<<>>, BitAnd(features, BitOr(SUPPORT_TURN_ON, SUPPORT_TURN_OFF)),
                       FEATURE_ON_OFF)
        m2 == AppendIf(m1, BitAnd(features, SUPPORT_PLAY), FEATURE_PLAY_PAUSE)
        m3 == AppendIf(m2, BitAnd(features, BitOr(SUPPORT_PLAY, SUPPORT_STOP)),
                       FEATURE_PLAY_STOP)
    IN AppendIf(m3, BitAnd(features, SUPPORT_VOLUME_MUTE), FEATURE_TOGGLE_MUTE)

supported_modes(features) ==
    LET m1 == AppendIf(<<>>, BitAnd(features, BitOr(SUPPORT_TURN_ON, SUPPORT_TURN_OFF)),
                       FEATURE_ON_OFF)
        m2 == AppendIf(m1, BitAnd(features, BitOr(SUPPORT_PLAY, SUPPORT_PAUSE)),
                       FEATURE_PLAY_PAUSE)
        m3 == AppendIf(m2, BitAnd(features, BitOr(SUPPORT_PLAY, SUPPORT_STOP)),
                       FEATURE_PLAY_STOP)
    IN AppendIf(m3, BitAnd(features, SUPPORT_VOLUME_MUTE), FEATURE_TOGGLE_MUTE)

\* [ret, log] of validate_media_player_features(state, feature_list)
validate_media_player_features(state, feature_list) ==
    LET features == DictGetDefault(state.attributes, "supported_features", 0)
        error_list == Unsupported(feature_list, supported_modes(features))
    IN IF error_list # <<>>
       THEN [ret |-> Returned(FALSE),
             log |-> <<[level |-> "error", entity_id |-> state.entity_id,
                        features |-> error_list]>>]
       ELSE [ret |-> Returned(TRUE), log |-> <<>>]

\* Longest list of requested features tried.
MaxRequest == 2

SupportBits == {SUPPORT_PAUSE, SUPPORT_SEEK, SUPPORT_VOLUME_MUTE, SUPPORT_TURN_ON,
                SUPPORT_TURN_OFF, SUPPORT_STOP, SUPPORT_PLAY}

RECURSIVE SumOf(_)
SumOf(S) == IF S = {} THEN 0 ELSE LET b == CHOOSE x \in S : TRUE IN b + SumOf(S \ {b})

\* The attribute dicts tried: no supported_features key, or any mix of the seven bits.
AttributeDicts ==
    {<<>>} \cup {[supported_features |-> SumOf(S)] : S \in SUBSET SupportBits}

FeatureNames == {FEATURE_ON_OFF, FEATURE_PLAY_PAUSE, FEATURE_PLAY_STOP, FEATURE_TOGGLE_MUTE}

SeqsUpTo(S, n) == UNION {[1..k -> S] : k \in 0..n}

Requests == SeqsUpTo(FeatureNames \cup {"select_source"}, MaxRequest)

CallFeatures(attrs, req) ==
    LET state == [entity_id |-> "media_player.tv", attributes |-> attrs]
        r == validate_media_player_features(state, req)
    IN /\ pc = "idle"
       /\ pc' = "done"
       /\ op' = "validate_media_player_features"
       /\ arg' = [state |-> state, feature_list |-> req]
       /\ ret' = r.ret
       /\ values' = [state |-> state, feature_list |-> req]
       /\ log' = r.log
       /\ UNCHANGED <<notifications, last_call, calls>>

(************************ temperature conversions **************************)

TEMP_CELSIUS == "C"
TEMP_FAHRENHEIT == "F"

\* An exact number num/den (den > 0).
Rat(n, d) == [num |-> n, den |-> d]
NoRat == [num |-> 0, den |-> 0]

RatTimes(q, n, d) == Rat(q.num * n, q.den * d)
RatPlusInt(q, i) == Rat(q.num + i * q.den, q.den)

\* homeassistant.util.temperature
celsius_to_fahrenheit(celsius) == RatPlusInt(RatTimes(celsius, 9, 5), 32)
fahrenheit_to_celsius(fahrenheit) == RatTimes(RatPlusInt(fahrenheit, 0 - 32), 5, 9)

convert(temperature, from_unit, to_unit) ==
    IF from_unit = to_unit THEN temperature
    ELSE IF from_unit = TEMP_CELSIUS THEN celsius_to_fahrenheit(temperature)
    ELSE fahrenheit_to_celsius(temperature)

\* Python 3 round(x) of a number to an int: to the nearest, a tie to the even one.
PyRound(q) ==
    LET fl == q.num \div q.den
        r == q.num % q.den
    IN IF 2 * r < q.den THEN fl
       ELSE IF 2 * r > q.den THEN fl + 1
       ELSE IF fl % 2 = 0 THEN fl ELSE fl + 1

temperature_to_homekit_floor(temperature, unit) ==
    LET q == RatTimes(convert(temperature, unit, TEMP_CELSIUS), 2, 1)
    IN Rat(q.num \div q.den, 2)

temperature_to_homekit(temperature, unit) ==
    Rat(PyRound(RatTimes(convert(temperature, unit, TEMP_CELSIUS), 2, 1)), 2)

temperature_to_states_floor(temperature, unit) ==
    LET q == RatTimes(convert(temperature, TEMP_CELSIUS, unit), 2, 1)
    IN Rat(q.num \div q.den, 2)

temperature_to_states(temperature, unit) ==
    Rat(PyRound(RatTimes(convert(temperature, TEMP_CELSIUS, unit), 2, 1)), 2)

\* Largest temperature tried, in degrees; the values tried are 1/100 degree apart.
MaxTemp == 40

Temperatures == {Rat(n, 100) : n \in (0 - MaxTemp * 100) .. (MaxTemp * 100)}

Units == {TEMP_CELSIUS, TEMP_FAHRENHEIT}

CallToHomekit(t, unit) ==
    /\ pc = "idle"
    /\ pc' = "done"
    /\ op' = "temperature_to_homekit"
    /\ arg' = [temperature |-> t, unit |-> unit, source |-> NoRat]
    /\ ret' = Returned(temperature_to_homekit(t, unit))
    /\ values' = t
    /\ log' = <<>>
    /\ UNCHANGED <<notifications, last_call, calls>>

CallToStates(t, unit) ==
    /\ pc = "idle"
    /\ pc' = "done"
    /\ op' = "temperature_to_states"
    /\ arg' = [temperature |-> t, unit |-> unit, source |-> NoRat]
    /\ ret' = Returned(temperature_to_states(t, unit))
    /\ values' = t
    /\ log' = <<>>
    /\ UNCHANGED <<notifications, last_call, calls>>

\* The value temperature_to_homekit returned is handed to temperature_to_states
\* with the same unit; source keeps the temperature the first call was given.
CallToStatesOfHomekit ==
    /\ pc = "done"
    /\ op = "temperature_to_homekit"
    /\ pc' = "chained"
    /\ op' = "temperature_to_states"
    /\ arg' = [temperature |-> ret.v, unit |-> arg.unit, source |-> arg.temperature]
    /\ ret' = Returned(temperature_to_states(ret.v, arg.unit))
    /\ values' = ret.v
    /\ log' = <<>>
    /\ UNCHANGED <<notifications, last_call, calls>>

(***************************** convert_to_float ****************************)

DigitChars == <<"0", "1", "2", "3", "4", "5", "6", "7", "8", "9">>

IsDigit(c) == \E i \in 1..10 : DigitChars[i] = c
DigitOf(c) == (CHOOSE i \in 1..10 : DigitChars[i] = c) - 1

RECURSIVE DigitsValue(_)
DigitsValue(s) ==
    IF s = <<>> THEN 0
    ELSE 10 * DigitsValue(SubSeq(s, 1, Len(s) - 1)) + DigitOf(s[Len(s)])

RECURSIVE Pow10(_)
Pow10(n) == IF n = 0 THEN 1 ELSE 10 * Pow10(n - 1)

PyFloat(q) == [t |-> "float", v |-> q]
PyInt(n) == [t |-> "int", v |-> n]
\* An int whose magnitude is beyond the range of a float (such as 10 ** 400).
PyHugeInt == [t |-> "hugeint", v |-> ""]

\* float(str): an optional sign, then digits with at most one point and at least
\* one digit; anything else over the alphabet tried is a ValueError.
FloatOfStr(s) ==
    LET neg == s # <<>> /\ s[1] = "-"
        body == IF neg THEN Tail(s) ELSE s
        dots == {i \in 1..Len(body) : body[i] = "."}
        dot == IF dots = {} THEN Len(body) + 1 ELSE CHOOSE i \in dots : TRUE
        whole == SubSeq(body, 1, dot - 1)
        frac == SubSeq(body, dot + 1, Len(body))
        digits == whole \o frac
    IN IF /\ Cardinality(dots) <= 1
          /\ digits # <<>>
          /\ \A i \in 1..Len(digits) : IsDigit(digits[i])
       THEN Returned(PyFloat(Rat((IF neg THEN 0 - 1 ELSE 1) * DigitsValue(digits),
                                 Pow10(Len(frac)))))
       ELSE Raised("ValueError")

\* The builtin float(x).
Float(x) ==
    CASE x.t = "str" -> FloatOfStr(x.v)
      [] x.t = "float" -> Returned(x)
      [] x.t = "int" -> Returned(PyFloat(Rat(x.v, 1)))
      [] x.t = "hugeint" -> Raised("OverflowError")
      [] OTHER -> Raised("TypeError")

convert_to_float(state) ==
    LET r == Float(state)
    IN IF r.raised \in {"ValueError", "TypeError"} THEN Returned(PyNone) ELSE r

\* Longest string handed to convert_to_float.
MaxStrLen == 4

FloatChars == {"1", "2", "5", ".", "-", "a"}

FloatInputs ==
    {PyStr(s) : s \in SeqsUpTo(FloatChars, MaxStrLen)}
        \cup {PyNone, PyList(<<>>), EmptyDict, PyHugeInt}
        \cup {PyInt(n) : n \in (0 - 2) .. 12}
        \cup {PyFloat(Rat(n, 10)) : n \in (0 - 5) .. 125}

CallConvertToFloat(x) ==
    /\ pc = "idle"
    /\ pc' = "done"
    /\ op' = "convert_to_float"
    /\ arg' = x
    /\ ret' = convert_to_float(x)
    /\ values' = x
    /\ log' = <<>>
    /\ UNCHANGED <<notifications, last_call, calls>>

(************************* validate_entity_config **************************)

CONF_NAME == "name"
CONF_TYPE == "type"
ATTR_CODE == "code"
CONF_FEATURE == "feature"
CONF_FEATURE_LIST == "feature_list"

TYPE_FAUCET == "faucet"
TYPE_OUTLET == "outlet"
TYPE_SHOWER == "shower"
TYPE_SPRINKLER == "sprinkler"
TYPE_SWITCH == "switch"
TYPE_VALVE == "valve"

\* A dict whose keys the code takes apart (entity ids) is kept as its items,
\* [key, value] records in insertion order; any other dict is a function from
\* its keys.
PyMapping(items) == [t |-> "dict", v |-> items]

UpperChars == <<"A", "B", "C", "D", "E", "F", "G", "H", "I", "J", "K", "L", "M",
                "N", "O", "P", "Q", "R", "S", "T", "U", "V", "W", "X", "Y", "Z">>
LowerChars == <<"a", "b", "c", "d", "e", "f", "g", "h", "i", "j", "k", "l", "m",
                "n", "o", "p", "q", "r", "s", "t", "u", "v", "w", "x", "y", "z">>

\* str.lower()
LowerChar(c) ==
    IF \E i \in 1..26 : UpperChars[i] = c
    THEN LowerChars[CHOOSE i \in 1..26 : UpperChars[i] = c]
    ELSE c

Lower(s) == [i \in 1..Len(s) |-> LowerChar(s[i])]

RECURSIVE IntToStr(_)
IntToStr(n) ==
    IF n < 10 THEN DigitChars[n + 1]
    ELSE IntToStr(n \div 10) \o DigitChars[(n % 10) + 1]

\* homeassistant.helpers.config_validation.string
cv_string(value) ==
    CASE value.t = "none" -> Raised("Invalid")
      [] value.t = "str" -> Returned(value)
      [] value.t = "int" -> Returned(PyStr(IntToStr(value.v)))
      [] OTHER -> Raised("Invalid")

\* homeassistant.helpers.config_validation.ensure_list
cv_ensure_list(value) ==
    CASE value.t = "none" -> PyList(<<>>)
      [] value.t = "list" -> value
      [] OTHER -> PyList(<<value>>)

\* homeassistant.core.valid_entity_id: <domain>.<object id>, each a non-empty word
\* of lower-case letters, digits and underscores.
valid_entity_id(s) ==
    LET dots == {i \in 1..Len(s) : s[i] = "."}
    IN /\ Cardinality(dots) = 1
       /\ 1 \notin dots
       /\ Len(s) \notin dots
       /\ \A i \in (1..Len(s)) \ dots :
              \/ \E j \in 1..26 : LowerChars[j] = s[i]
              \/ IsDigit(s[i])
              \/ s[i] = "_"

\* homeassistant.helpers.config_validation.entity_id
cv_entity_id(value) ==
    LET s == cv_string(value)
    IN IF s.raised # "" THEN s
       ELSE LET low == Lower(s.v.v)
            IN IF valid_entity_id(low) THEN Returned(PyStr(low)) ELSE Raised("Invalid")

\* homeassistant.core.split_entity_id: entity_id.split(".", 1)
split_entity_id(entity_id) ==
    LET dot == CHOOSE i \in 1..Len(entity_id) :
                   entity_id[i] = "." /\ \A j \in 1..(i - 1) : entity_id[j] # "."
    IN <<SubSeq(entity_id, 1, dot - 1), SubSeq(entity_id, dot + 1, Len(entity_id))>>

\* One key of a voluptuous dict schema: vol.Required(key) or vol.Optional(key,
\* default=...), and the name of the validator of its value.
SchemaKey(key, required, has_default, default, validator) ==
    [key |-> key, required |-> required, has_default |-> has_default,
     default |-> default, validator |-> validator]

BASIC_INFO_SCHEMA == {SchemaKey(CONF_NAME, FALSE, FALSE, PyNone, "string")}

FEATURE_SCHEMA ==
    BASIC_INFO_SCHEMA \cup {SchemaKey(CONF_FEATURE_LIST, FALSE, TRUE, PyNone, "ensure_list")}

CODE_SCHEMA_no_default ==
    BASIC_INFO_SCHEMA \cup {SchemaKey(ATTR_CODE, FALSE, FALSE, PyNone, "none_or_string")}

CODE_SCHEMA ==
    BASIC_INFO_SCHEMA \cup {SchemaKey(ATTR_CODE, FALSE, TRUE, PyNone, "none_or_string")}

MEDIA_PLAYER_SCHEMA == {SchemaKey(CONF_FEATURE, TRUE, FALSE, PyNone, "feature")}

SWITCH_TYPE_SCHEMA_any_string ==
    BASIC_INFO_SCHEMA \cup {SchemaKey(CONF_TYPE, FALSE, TRUE, PyStr(TYPE_SWITCH), "string")}

SWITCH_TYPE_SCHEMA ==
    BASIC_INFO_SCHEMA \cup {SchemaKey(CONF_TYPE, FALSE, TRUE, PyStr(TYPE_SWITCH), "switch_type")}

\* vol.All(cv.string, vol.In(container))
StringIn(value, container) ==
    LET s == cv_string(value)
    IN IF s.raised = "" /\ s.v.v \notin container THEN Raised("Invalid") ELSE s

\* The validators the schemas name.
Validate(validator, value) ==
    CASE validator = "string" -> cv_string(value)
      [] validator = "ensure_list" -> Returned(cv_ensure_list(value))
      [] validator = "none_or_string" ->
            IF value = PyNone THEN Returned(PyNone) ELSE cv_string(value)
      [] validator = "feature" ->
            StringIn(value, {FEATURE_ON_OFF, FEATURE_PLAY_PAUSE,
                             FEATURE_PLAY_STOP, FEATURE_TOGGLE_MUTE})
      [] validator = "switch_type" ->
            StringIn(value, {TYPE_FAUCET, TYPE_OUTLET, TYPE_SHOWER, TYPE_SPRINKLER,
                             TYPE_SWITCH, TYPE_VALVE})

\* dict[key] = value on a dict kept as a function
SetItem(d, key, value) ==
    [k \in DOMAIN d \cup {key} |-> IF k = key THEN value ELSE d[k]]

\* dict without key
DelItem(d, key) == [k \in DOMAIN d \ {key} |-> d[k]]

SchemaKeyOf(schema, name) == CHOOSE k \in schema : k.key = name

\* The items of a dict with the defaults of the keys it lacks put in.
WithDefaults(schema, d) ==
    [name \in DOMAIN d \cup {k.key : k \in {x \in schema : x.has_default}} |->
        IF name \in DOMAIN d THEN d[name] ELSE SchemaKeyOf(schema, name).default]

\* The new dict of the validated values, or the error of a value.
Collect(checked) ==
    IF \E name \in DOMAIN checked : checked[name].raised # ""
    THEN Raised("Invalid")
    ELSE Returned(PyDict([name \in DOMAIN checked |-> checked[name].v]))

\* A key the schema does not name, or a missing required key, is an error; every
\* value goes through the validator of its key.
CheckItems(schema, filled) ==
    IF \/ \E name \in DOMAIN filled : name \notin {k.key : k \in schema}
       \/ \E k \in schema : k.required /\ k.key \notin DOMAIN filled
    THEN Raised("Invalid")
    ELSE Collect([name \in DOMAIN filled |->
                     Validate(SchemaKeyOf(schema, name).validator, filled[name])])

\* schema(data) of a voluptuous dict schema: data must be a dict; the result is a
\* new dict.
ApplySchema(schema, data) ==
    IF ~IsDict(data) THEN Raised("Invalid")
    ELSE CheckItems(schema, WithDefaults(schema, data.v))

\* key = params.pop(CONF_FEATURE): the key leaves params, the validated copy; the
\* entry of the caller's list stays as it is.
PopFeature_from_entry(feature, params) ==
    [key |-> feature.v[CONF_FEATURE],
     params |-> PyDict(DelItem(params.v, CONF_FEATURE)),
     feature |-> PyDict(DelItem(feature.v, CONF_FEATURE))]

PopFeature(feature, params) ==
    [key |-> params.v[CONF_FEATURE],
     params |-> PyDict(DelItem(params.v, CONF_FEATURE)),
     feature |-> feature]

\* if key in feature_list
AlreadyAdded_never(key, feature_list) == FALSE

AlreadyAdded(key, feature_list) == key.v \in DOMAIN feature_list

\* The loop over config[CONF_FEATURE_LIST]. features: the entries still to come;
\* feature_list: the dict built so far; done: the entries gone through, as they
\* are now.
RECURSIVE FeatureLoop(_, _, _)

\* Lines 70-73, p: what the pop of line 69 gave.
AddFeature(features, feature_list, done, p) ==
    IF AlreadyAdded(p.key, feature_list)
    THEN [raised |-> "Invalid", feature_list |-> feature_list,
          features |-> done \o <<p.feature>> \o Tail(features)]
    ELSE FeatureLoop(Tail(features), SetItem(feature_list, p.key.v, p.params),
                     Append(done, p.feature))

\* Line 69, params: what MEDIA_PLAYER_SCHEMA(feature) gave.
PopAndAdd(features, feature_list, done, params) ==
    IF params.raised # ""
    THEN [raised |-> params.raised, feature_list |-> feature_list,
          features |-> done \o features]
    ELSE AddFeature(features, feature_list, done, PopFeature(Head(features), params.v))

FeatureLoop(features, feature_list, done) ==
    IF features = <<>>
    THEN [raised |-> "", feature_list |-> feature_list, features |-> done]
    ELSE PopAndAdd(features, feature_list, done,
                   ApplySchema(MEDIA_PLAYER_SCHEMA, Head(features)))

\* The caller's record with its feature entries as the loop left them.
WithFeatures(config, features) ==
    IF CONF_FEATURE_LIST \notin DOMAIN config.v THEN config
    ELSE LET given == config.v[CONF_FEATURE_LIST]
         IN CASE given.t = "none" -> config
              [] given.t = "list" ->
                    PyDict(SetItem(config.v, CONF_FEATURE_LIST, PyList(features)))
              [] OTHER -> PyDict(SetItem(config.v, CONF_FEATURE_LIST, features[1]))

Domain_alarm_control_panel == <<"a", "l", "a", "r", "m", "_", "c", "o", "n", "t", "r", "o", "l", "_", "p", "a", "n", "e", "l">>
Domain_lock == <<"l", "o", "c", "k">>
Domain_media_player == <<"m", "e", "d", "i", "a", "_", "p", "l", "a", "y", "e", "r">>
Domain_switch == <<"s", "w", "i", "t", "c", "h">>

\* A record validated by one schema call: [raised, config: the validated record,
\* record: the caller's record afterwards].
Plain(config, r) == [raised |-> r.raised, config |-> r.v, record |-> config]

\* Line 74, loop: what the loop over the feature entries gave.
StoreFeatureList(config, validated, loop) ==
    IF loop.raised # ""
    THEN [raised |-> loop.raised, config |-> PyNone,
          record |-> WithFeatures(config, loop.features)]
    ELSE [raised |-> "",
          config |-> PyDict(SetItem(validated.v, CONF_FEATURE_LIST,
                                    PyDict(loop.feature_list))),
          record |-> WithFeatures(config, loop.features)]

\* Lines 66-74, r: what FEATURE_SCHEMA(config) gave.
MediaPlayerRecord(config, r) ==
    IF r.raised # "" THEN Plain(config, r)
    ELSE StoreFeatureList(config, r.v, FeatureLoop(r.v.v[CONF_FEATURE_LIST].v, <<>>, <<>>))

\* The body of the loop over values.items() after the entity id is validated.
ValidateRecord(domain, config) ==
    IF ~IsDict(config)
    THEN [raised |-> "Invalid", config |-> PyNone, record |-> config]
    ELSE IF domain \in {Domain_alarm_control_panel, Domain_lock}
    THEN Plain(config, ApplySchema(CODE_SCHEMA, config))
    ELSE IF domain = Domain_media_player
    THEN MediaPlayerRecord(config, ApplySchema(FEATURE_SCHEMA, config))
    ELSE IF domain = Domain_switch
    THEN Plain(config, ApplySchema(SWITCH_TYPE_SCHEMA, config))
    ELSE Plain(config, ApplySchema(BASIC_INFO_SCHEMA, config))

\* entities[entity] = config on a dict kept as its items
MappingSet(items, key, value) ==
    IF \E i \in 1..Len(items) : items[i].key = key
    THEN [i \in 1..Len(items) |->
             IF items[i].key = key THEN [key |-> key, value |-> value] ELSE items[i]]
    ELSE Append(items, [key |-> key, value |-> value])

\* The loop over values.items(). items: the items still to come; entities: the
\* result so far; done: the caller's items gone through, as they are now.
RECURSIVE EntityLoop(_, _, _)

\* Line 82, r: what the validation of the record gave.
StoreEntity(items, entities, done, entity, r) ==
    IF r.raised # ""
    THEN [ret |-> Raised(r.raised),
          values |-> PyMapping(done \o <<[key |-> Head(items).key, value |-> r.record]>>
                                    \o Tail(items))]
    ELSE EntityLoop(Tail(items), MappingSet(entities, entity, r.config),
                    Append(done, [key |-> Head(items).key, value |-> r.record]))

\* Lines 55-80, entity: what cv.entity_id(entity_id) gave.
ValidateItem(items, entities, done, entity) ==
    IF entity.raised # ""
    THEN [ret |-> Raised(entity.raised), values |-> PyMapping(done \o items)]
    ELSE StoreEntity(items, entities, done, entity.v,
                     ValidateRecord(split_entity_id(entity.v.v)[1], Head(items).value))

EntityLoop(items, entities, done) ==
    IF items = <<>>
    THEN [ret |-> Returned(PyMapping(entities)), values |-> PyMapping(done)]
    ELSE ValidateItem(items, entities, done, cv_entity_id(Head(items).key))

\* [ret, values: the caller's mapping as it is after the call]
validate_entity_config(config_values) ==
    IF ~IsDict(config_values)
    THEN [ret |-> Raised("Invalid"), values |-> config_values]
    ELSE EntityLoop(config_values.v, <<>>, <<>>)

\* Most entities in a mapping, and most entries in a feature list.
MaxEntities == 2
MaxFeatures == 3

Id_lock == PyStr(<<"l", "o", "c", "k", ".", "d", "o", "o", "r">>)
Id_alarm == PyStr(<<"a", "l", "a", "r", "m", "_", "c", "o", "n", "t", "r", "o", "l", "_", "p", "a", "n", "e", "l", ".", "h", "o", "m", "e">>)
Id_media_player == PyStr(<<"m", "e", "d", "i", "a", "_", "p", "l", "a", "y", "e", "r", ".", "t", "v">>)
Id_switch == PyStr(<<"s", "w", "i", "t", "c", "h", ".", "k", "i", "t", "c", "h", "e", "n">>)
Id_switch_upper == PyStr(<<"S", "w", "i", "t", "c", "h", ".", "K", "i", "t", "c", "h", "e", "n">>)
Id_light == PyStr(<<"l", "i", "g", "h", "t", ".", "d", "e", "s", "k">>)
Id_no_dot == PyStr(<<"s", "w", "i", "t", "c", "h", "k", "i", "t", "c", "h", "e", "n">>)
Id_two_dots == PyStr(<<"s", "w", "i", "t", "c", "h", ".", "k", "i", "t", ".", "c", "h", "e", "n">>)

FeatureEntries ==
    {PyDict([feature |-> PyStr(FEATURE_ON_OFF)]),
     PyDict([feature |-> PyStr(FEATURE_PLAY_PAUSE)]),
     PyDict([feature |-> PyStr("select_source")])}

MediaPlayerRecords ==
    {PyDict([feature_list |-> PyList(l)]) : l \in SeqsUpTo(FeatureEntries, MaxFeatures)}
        \cup {EmptyDict,
              PyDict([feature_list |-> PyNone]),
              PyDict([name |-> PyStr("TV"),
                      feature_list |-> PyDict([feature |-> PyStr(FEATURE_TOGGLE_MUTE)])]),
              PyDict([feature_list |-> PyList(<<PyStr(FEATURE_ON_OFF)>>)]),
              PyDict([feature_list |-> PyList(<<PyDict([feature |-> PyStr(FEATURE_PLAY_STOP),
                                                        volume |-> PyInt(5)])>>)])}

\* The records tried under each entity id.
RecordsOf(id) ==
    CASE id = Id_lock ->
            {EmptyDict,
             PyDict([name |-> PyStr("Door"), code |-> PyInt(1234)]),
             PyDict([code |-> PyNone]),
             PyDict([type |-> PyStr(TYPE_OUTLET)]),
             PyStr("locked")}
      [] id = Id_alarm -> {PyDict([name |-> PyStr("Alarm")]), PyDict([code |-> PyStr("0000")])}
      [] id = Id_media_player -> MediaPlayerRecords
      [] id = Id_switch ->
            {EmptyDict,
             PyDict([name |-> PyStr("Kitchen"), type |-> PyStr(TYPE_OUTLET)]),
             PyDict([type |-> PyStr("dimmer")])}
      [] id = Id_switch_upper -> {PyDict([type |-> PyStr(TYPE_FAUCET)])}
      [] id = Id_light ->
            {EmptyDict, PyDict([name |-> PyStr("Desk")]), PyDict([code |-> PyStr("0000")])}
      [] id = Id_no_dot -> {EmptyDict}
      [] id = Id_two_dots -> {EmptyDict}

EntityIds == {Id_lock, Id_alarm, Id_media_player, Id_switch, Id_switch_upper, Id_light,
              Id_no_dot, Id_two_dots}

\* The caller puts its mapping together item by item, up to MaxEntities items
\* under different keys.
AddItem(id, record) ==
    /\ pc = "idle"
    /\ IsDict(values)
    /\ Len(values.v) < MaxEntities
    /\ \A i \in 1..Len(values.v) : values.v[i].key # id
    /\ values' = PyMapping(Append(values.v, [key |-> id, value |-> record]))
    /\ UNCHANGED <<pc, op, arg, ret, log, notifications, last_call, calls>>

CallValidateEntityConfig ==
    LET r == validate_entity_config(values)
    IN /\ pc = "idle"
       /\ pc' = "done"
       /\ op' = "validate_entity_config"
       /\ arg' = values
       /\ ret' = r.ret
       /\ values' = r.values
       /\ log' = <<>>
       /\ UNCHANGED <<notifications, last_call, calls>>

\* Before the call the caller holds an empty mapping, or something that is no
\* mapping at all.
ConfigInit ==
    /\ pc = "idle"
    /\ op = ""
    /\ arg = PyNone
    /\ ret = NoCall
    /\ values \in {PyMapping(<<>>), PyNone, PyList(<<>>), PyStr("lock.door")}
    /\ log = <<>>
    /\ notifications = {}
    /\ last_call = ""
    /\ calls = 0

ConfigNext ==
    \/ \E id \in EntityIds : \E record \in RecordsOf(id) : AddItem(id, record)
    \/ CallValidateEntityConfig

(************************ setup message helpers ****************************)

HOMEKIT_NOTIFY_ID == 4663548

\* persistent_notification.create(message, title, notification_id): the service
\* keeps one notification per id, the newest.
persistent_notification_create(ns, message, title, notification_id) ==
    {n \in ns : n.notification_id # notification_id}
        \cup {[notification_id |-> notification_id, title |-> title, message |-> message]}

\* persistent_notification.dismiss(notification_id)
persistent_notification_dismiss(ns, notification_id) ==
    {n \in ns : n.notification_id # notification_id}

\* bytes.decode() of ASCII digits and dashes
DecodeByte(b) == IF b = 45 THEN "-" ELSE DigitChars[b - 47]

RECURSIVE Decode(_)
Decode(bytes) ==
    IF bytes = <<>> THEN "" ELSE DecodeByte(Head(bytes)) \o Decode(Tail(bytes))

\* [notifications, log] after show_setup_message(hass, pincode)
show_setup_message_id_per_pin(ns, pincode) ==
    LET pin == Decode(pincode)
        message == "To set up Home Assistant in the Home App, enter the following code:\n### " \o pin
    IN [notifications |->
            persistent_notification_create(ns, message, "HomeKit Setup", PyStr(pin)),
        log |-> <<[level |-> "info", pin |-> pin]>>]

show_setup_message(ns, pincode) ==
    LET pin == Decode(pincode)
        message == "To set up Home Assistant in the Home App, enter the following code:\n### " \o pin
    IN [notifications |->
            persistent_notification_create(ns, message, "HomeKit Setup",
                                           PyInt(HOMEKIT_NOTIFY_ID)),
        log |-> <<[level |-> "info", pin |-> pin]>>]

\* notifications after dismiss_setup_message(hass)
dismiss_setup_message(ns) == persistent_notification_dismiss(ns, PyInt(HOMEKIT_NOTIFY_ID))

\* Most calls of the two helpers in one run.
MaxCalls == 5

\* b'031-45-154', b'123-45-678', b'987-65-432'
Pincodes == {<<48, 51, 49, 45, 52, 53, 45, 49, 53, 52>>,
             <<49, 50, 51, 45, 52, 53, 45, 54, 55, 56>>,
             <<57, 56, 55, 45, 54, 53, 45, 52, 51, 50>>}

\* Notification ids of other components.
OtherIds == {PyStr("invalid_config"), PyStr("http-login")}

ShowSetupMessage(pincode) ==
    LET r == show_setup_message(notifications, pincode)
    IN /\ calls < MaxCalls
       /\ notifications' = r.notifications
       /\ log' = r.log
       /\ last_call' = "show"
       /\ arg' = pincode
       /\ calls' = calls + 1
       /\ UNCHANGED <<pc, op, ret, values>>

DismissSetupMessage ==
    /\ calls < MaxCalls
    /\ notifications' = dismiss_setup_message(notifications)
    /\ log' = <<>>
    /\ last_call' = "dismiss"
    /\ calls' = calls + 1
    /\ UNCHANGED <<pc, op, arg, ret, values>>

\* Another component shows or dismisses a notification of its own.
OtherCreate(id) ==
    /\ notifications' = persistent_notification_create(notifications, "message", "title", id)
    /\ UNCHANGED <<pc, op, arg, ret, values, log, last_call, calls>>

OtherDismiss(id) ==
    /\ notifications' = persistent_notification_dismiss(notifications, id)
    /\ UNCHANGED <<pc, op, arg, ret, values, log, last_call, calls>>

NotifyNext ==
    \/ \E pincode \in Pincodes : ShowSetupMessage(pincode)
    \/ DismissSetupMessage
    \/ \E id \in OtherIds : OtherCreate(id)
    \/ \E id \in OtherIds : OtherDismiss(id)

(******************************** harness *********************************)

Init ==
    /\ pc = "idle"
    /\ op = ""
    /\ arg = PyNone
    /\ ret = NoCall
    /\ values = PyNone
    /\ log = <<>>
    /\ notifications = {}
    /\ last_call = ""
    /\ calls = 0

\* A call is made once, from the idle state; one specification per function.
DensityNext == pc = "idle" /\ \E d \in Densities : CallDensity(d)

FeaturesNext == pc = "idle" /\ \E a \in AttributeDicts, r \in Requests : CallFeatures(a, r)

TemperatureNext ==
    \/ pc = "idle" /\ \E t \in Temperatures, u \in Units : CallToHomekit(t, u)
    \/ pc = "idle" /\ \E t \in Temperatures, u \in Units : CallToStates(t, u)
    \/ CallToStatesOfHomekit

FloatNext == pc = "idle" /\ \E x \in FloatInputs : CallConvertToFloat(x)

DensitySpec == Init /\ [][DensityNext]_vars
FeaturesSpec == Init /\ [][FeaturesNext]_vars
TemperatureSpec == Init /\ [][TemperatureNext]_vars
FloatSpec == Init /\ [][FloatNext]_vars
NotifySpec == Init /\ [][NotifyNext]_vars
ConfigSpec == ConfigInit /\ [][ConfigNext]_vars

(***************************** checked properties *************************)

Called(f) == pc # "idle" /\ op = f

\* |a - b| <= n/d for exact numbers a and b
RatWithin(a, b, n, d) ==
    Abs(a.num * b.den - b.num * a.den) * d <= n * a.den * b.den

\* Whether the bit (a power of two) is set in the mask n.
HasBit(n, bit) == (n \div bit) % 2 = 1

DerivedSupport(mask) ==
    {f \in FeatureNames :
        \/ f = "on_off" /\ (HasBit(mask, 128) \/ HasBit(mask, 256))
        \/ f = "play_pause" /\ (HasBit(mask, 16384) \/ HasBit(mask, 1))
        \/ f = "play_stop" /\ (HasBit(mask, 16384) \/ HasBit(mask, 4096))
        \/ f = "toggle_mute" /\ HasBit(mask, 8)}

MaskOf(attributes) ==
    IF "supported_features" \in DOMAIN attributes
    THEN attributes["supported_features"] ELSE 0

\* C4: validate_media_player_features never raises and returns true exactly when
\* every requested feature is in the set derived from the bitmask (an absent
\* bitmask counts as 0): on_off from the turn-on or turn-off bit, play_pause from
\* play or pause, play_stop from play or stop, toggle_mute from volume-mute. Only
\* turn on/off set: play_pause gives false, on_off alone gives true. An empty
\* request gives true.
C4_FeatureCheck ==
    Called("validate_media_player_features") =>
        LET mask == MaskOf(arg.state.attributes)
            req == arg.feature_list
        IN /\ ret.raised = ""
           /\ ret.v = (\A i \in 1..Len(req) : req[i] \in DerivedSupport(mask))
           /\ (mask \in {128, 256, 384} /\ req = <<"play_pause">>) => ret.v = FALSE
           /\ (mask \in {128, 256, 384} /\ req = <<"on_off">>) => ret.v = TRUE
           /\ req = <<>> => ret.v = TRUE

C4_Witness ==
    /\ Called("validate_media_player_features")
    /\ MaskOf(arg.state.attributes) = 384
    /\ arg.feature_list = <<"play_pause">>
    /\ ret = Returned(FALSE)

\* C5 as stated: temperature_to_states(temperature_to_homekit(t, unit), unit) is
\* within 0.5 of t for Celsius and for Fahrenheit.
C5_RoundTripWithinHalf ==
    pc = "chained" => RatWithin(ret.v, arg.source, 1, 2)

\* C5 amended: temperature_to_states(temperature_to_homekit(t, unit), unit) is
\* within 0.25 of t for Celsius and within 0.7 of t for Fahrenheit.
C5_RoundTripBound ==
    pc = "chained" =>
        /\ arg.unit = "C" => RatWithin(ret.v, arg.source, 1, 4)
        /\ arg.unit = "F" => RatWithin(ret.v, arg.source, 7, 10)

C5_Witness ==
    /\ pc = "chained"
    /\ arg.unit = "F"
    /\ arg.source = Rat(3246, 100)
    /\ ret.v = Rat(66, 2)

\* C6: density_to_air_quality gives 1 up to 35, 2 above 35 up to 75, 3 above 75 up
\* to 115, 4 above 115 up to 150 and 5 above 150 (35 gives 1, 36 gives 2, 151
\* gives 5), for zero and negative densities too, and never gives a lower level
\* for a higher density.
C6_DensityLevels ==
    Called("density_to_air_quality") =>
        /\ ret.raised = ""
        /\ ret.v = 1 + Cardinality({th \in {35, 75, 115, 150} : arg > th * 10})
        /\ arg = 350 => ret.v = 1
        /\ arg = 360 => ret.v = 2
        /\ arg = 1510 => ret.v = 5
        /\ \A e \in Densities : e <= arg => density_to_air_quality(e) <= ret.v

C6_Witness ==
    /\ Called("density_to_air_quality")
    /\ arg = 350
    /\ ret = Returned(1)

\* C7: convert_to_float never raises: it returns the parsed number or None.
C7_NeverRaises ==
    Called("convert_to_float") =>
        /\ ret.raised = ""
        /\ ret.v.t \in {"float", "none"}

\* C9: the result of temperature_to_homekit and of temperature_to_states is a
\* multiple of 0.5 at most 0.25 away from the exactly converted value (Celsius =
\* (Fahrenheit - 32) * 5 / 9); with the Celsius unit a multiple of 0.5 is
\* returned unchanged.
C9_NearestHalf ==
    (Called("temperature_to_homekit") \/ Called("temperature_to_states")) =>
        LET k == ret.v.num
            n == arg.temperature.num
            d == arg.temperature.den
        IN /\ ret.raised = ""
           /\ ret.v.den = 2
           /\ arg.unit = "C" => Abs(2 * k * d - 4 * n) <= d
           /\ (arg.unit = "C" /\ (2 * n) % d = 0) => k * d = 2 * n
           /\ (arg.unit = "F" /\ op = "temperature_to_homekit") =>
                  Abs(18 * k * d - 20 * (n - 32 * d)) <= 9 * d
           /\ (arg.unit = "F" /\ op = "temperature_to_states") =>
                  Abs(10 * k * d - 36 * n - 640 * d) <= 5 * d

C9_Witness ==
    /\ Called("temperature_to_homekit")
    /\ arg.unit = "F"
    /\ arg.temperature = Rat(3345, 100)
    /\ ret.v = Rat(2, 2)

\* The setup notifications the service holds.
SetupNotifications == {n \in notifications : n.notification_id = PyInt(4663548)}

PinText(pincode) ==
    CASE pincode = <<48, 51, 49, 45, 52, 53, 45, 49, 53, 52>> -> "031-45-154"
      [] pincode = <<49, 50, 51, 45, 52, 53, 45, 54, 55, 56>> -> "123-45-678"
      [] pincode = <<57, 56, 55, 45, 54, 53, 45, 52, 51, 50>> -> "987-65-432"

C8_StateAfterCalls ==
    /\ Cardinality(SetupNotifications) <= 1
    /\ (SetupNotifications # {}) <=> (last_call = "show")
    /\ last_call = "show" =>
           \A n \in SetupNotifications :
               n.message = "To set up Home Assistant in the Home App, enter the following code:\n### "
                               \o PinText(arg)

\* C8: after any run of show_setup_message and dismiss_setup_message calls there is
\* at most one setup notification; there is one exactly when the last call was a
\* show, and it carries the pairing code of that show; a dismiss creates nothing
\* and leaves the notifications under every other id as they were.
C8_SetupNotification ==
    /\ []C8_StateAfterCalls
    /\ [][(last_call' = "dismiss" /\ calls' # calls) =>
              /\ notifications' \subseteq notifications
              /\ notifications \ notifications' \subseteq SetupNotifications]_vars

C8_Witness ==
    /\ last_call = "show"
    /\ calls >= 3
    /\ arg = <<49, 50, 51, 45, 52, 53, 45, 54, 55, 56>>
    /\ Cardinality(notifications) = 3
    /\ \E n \in SetupNotifications :
           n.message = "To set up Home Assistant in the Home App, enter the following code:\n### 123-45-678"

(* The entity ids tried, as the claims speak of them. *)
WellFormedIds == {Id_lock, Id_alarm, Id_media_player, Id_switch, Id_switch_upper, Id_light}

\* The identifier a well-formed key stands for.
EntityOf(id) == IF id = Id_switch_upper THEN Id_switch ELSE id

DomainNameOf(id) ==
    CASE id = Id_lock -> "lock"
      [] id = Id_alarm -> "alarm_control_panel"
      [] id = Id_media_player -> "media_player"
      [] id \in {Id_switch, Id_switch_upper} -> "switch"
      [] OTHER -> "light"

SwitchTypes == {"faucet", "outlet", "shower", "sprinkler", "switch", "valve"}

\* The feature entries a record gives: the items of its list, or the one value
\* given in place of a list.
EntriesGiven(record) ==
    IF ~IsDict(record) \/ "feature_list" \notin DOMAIN record.v THEN <<>>
    ELSE LET given == record.v["feature_list"]
         IN CASE given.t = "none" -> <<>>
              [] given.t = "list" -> given.v
              [] OTHER -> <<given>>

NamesFeature(entry) ==
    IsDict(entry) /\ "feature" \in DOMAIN entry.v /\ entry.v["feature"].t = "str"

Offending(v) ==
    \/ ~IsDict(v)
    \/ \E i \in 1..Len(v.v) :
          LET id == v.v[i].key
              record == v.v[i].value
          IN \/ id \notin WellFormedIds
             \/ ~IsDict(record)
             \/ /\ id \in WellFormedIds
                /\ DomainNameOf(id) = "switch"
                /\ "type" \in DOMAIN record.v
                /\ record.v["type"].t = "str"
                /\ record.v["type"].v \notin SwitchTypes
             \/ /\ id \in WellFormedIds
                /\ DomainNameOf(id) = "media_player"
                /\ \E j \in 1..Len(EntriesGiven(record)) :
                       /\ NamesFeature(EntriesGiven(record)[j])
                       /\ EntriesGiven(record)[j].v["feature"].v \notin FeatureNames

\* C1: validate_entity_config raises a validation error and returns no mapping when
\* its input is no mapping, or some key is a malformed entity id, or some record is
\* no mapping, or a switch record has a type outside the six switch types, or a
\* media-player feature entry names a feature outside the four features; whatever
\* comes before or after the offending item.
C1_RejectsOffending ==
    (Called("validate_entity_config") /\ Offending(arg)) => ret = Raised("Invalid")

C1_Witness ==
    /\ Called("validate_entity_config")
    /\ IsDict(arg)
    /\ Len(arg.v) = 2
    /\ arg.v[1] = [key |-> Id_light, value |-> PyDict([name |-> PyStr("Desk")])]
    /\ arg.v[2] = [key |-> Id_switch, value |-> PyDict([type |-> PyStr("dimmer")])]
    /\ ret = Raised("Invalid")

\* The validated record the result holds for the entity of a key.
ResultOf(id) ==
    (CHOOSE item \in {ret.v.v[i] : i \in 1..Len(ret.v.v)} : item.key = EntityOf(id)).value

\* C2: a media-player record whose feature list names the same feature at two
\* positions makes validate_entity_config raise a validation error; when the call
\* returns, the feature list of a media-player record is a mapping with one key
\* per listed feature and as many keys as the list had entries.
C2_FeaturesOnce ==
    (Called("validate_entity_config") /\ IsDict(arg)) =>
        \A i \in 1..Len(arg.v) :
            arg.v[i].key = Id_media_player =>
                LET entries == EntriesGiven(arg.v[i].value)
                IN /\ (\E a, b \in 1..Len(entries) :
                           /\ a < b
                           /\ NamesFeature(entries[a])
                           /\ NamesFeature(entries[b])
                           /\ entries[a].v["feature"] = entries[b].v["feature"])
                       => ret = Raised("Invalid")
                   /\ ret.raised = "" =>
                          LET out == ResultOf(Id_media_player).v["feature_list"]
                          IN /\ out.t = "dict"
                             /\ DOMAIN out.v =
                                    {entries[a].v["feature"].v : a \in 1..Len(entries)}
                             /\ Cardinality(DOMAIN out.v) = Len(entries)

C2_Witness ==
    /\ Called("validate_entity_config")
    /\ IsDict(arg)
    /\ Len(arg.v) = 1
    /\ arg.v[1] = [key |-> Id_media_player,
                   value |-> PyDict([feature_list |->
                                 PyList(<<PyDict([feature |-> PyStr("on_off")]),
                                          PyDict([feature |-> PyStr("play_pause")]),
                                          PyDict([feature |-> PyStr("on_off")])>>)])]
    /\ ret = Raised("Invalid")

\* A record the schema of its domain accepts.
ValidRecord(id, record) ==
    /\ IsDict(record)
    /\ "name" \in DOMAIN record.v => record.v["name"].t = "str"
    /\ CASE DomainNameOf(id) \in {"lock", "alarm_control_panel"} ->
                /\ DOMAIN record.v \subseteq {"name", "code"}
                /\ "code" \in DOMAIN record.v => record.v["code"].t \in {"none", "str", "int"}
         [] DomainNameOf(id) = "switch" ->
                /\ DOMAIN record.v \subseteq {"name", "type"}
                /\ "type" \in DOMAIN record.v =>
                       record.v["type"].t = "str" /\ record.v["type"].v \in SwitchTypes
         [] DomainNameOf(id) = "media_player" ->
                /\ DOMAIN record.v \subseteq {"name", "feature_list"}
                /\ LET entries == EntriesGiven(record)
                   IN /\ \A a \in 1..Len(entries) :
                             /\ NamesFeature(entries[a])
                             /\ DOMAIN entries[a].v = {"feature"}
                             /\ entries[a].v["feature"].v \in FeatureNames
                      /\ \A a, b \in 1..Len(entries) :
                             entries[a] = entries[b] => a = b
         [] OTHER -> DOMAIN record.v \subseteq {"name"}

\* C3: valid identifiers with valid records are accepted, and the validated record
\* is chosen by the domain: alarm_control_panel and lock get a code that is None
\* when none is given; switch gets a type that is "switch" when none is given;
\* media_player gets a feature-list mapping that is empty when no list is given;
\* any other domain keeps at most a name; a name that is not given stays absent.
C3_DefaultsByDomain ==
    (Called("validate_entity_config") /\ IsDict(arg)) =>
        /\ (\A i \in 1..Len(arg.v) :
                arg.v[i].key \in WellFormedIds /\ ValidRecord(arg.v[i].key, arg.v[i].value))
               => ret.raised = ""
        /\ ret.raised = "" =>
               \A i \in 1..Len(arg.v) :
                   (\A j \in (i + 1)..Len(arg.v) :
                        EntityOf(arg.v[j].key) # EntityOf(arg.v[i].key)) =>
                       LET id == arg.v[i].key
                           record == arg.v[i].value.v
                           out == ResultOf(id).v
                       IN /\ ("name" \in DOMAIN out) <=> ("name" \in DOMAIN record)
                          /\ DomainNameOf(id) \in {"lock", "alarm_control_panel"} =>
                                 /\ DOMAIN out \ {"name"} = {"code"}
                                 /\ "code" \notin DOMAIN record => out["code"] = PyNone
                          /\ DomainNameOf(id) = "switch" =>
                                 /\ DOMAIN out \ {"name"} = {"type"}
                                 /\ "type" \notin DOMAIN record => out["type"] = PyStr("switch")
                          /\ DomainNameOf(id) = "media_player" =>
                                 /\ DOMAIN out \ {"name"} = {"feature_list"}
                                 /\ out["feature_list"].t = "dict"
                                 /\ EntriesGiven(arg.v[i].value) = <<>> =>
                                        out["feature_list"] = EmptyDict
                          /\ DomainNameOf(id) = "light" => DOMAIN out \subseteq {"name"}

C3_Witness ==
    /\ Called("validate_entity_config")
    /\ IsDict(arg)
    /\ Len(arg.v) = 2
    /\ arg.v[1] = [key |-> Id_lock, value |-> EmptyDict]
    /\ arg.v[2] = [key |-> Id_media_player, value |-> EmptyDict]
    /\ ret.raised = ""
    /\ ResultOf(Id_lock) = PyDict([code |-> PyNone])
    /\ ResultOf(Id_media_player) = PyDict([feature_list |-> EmptyDict])

\* C10: validate_entity_config leaves its input as it was, whether it returns or
\* raises: the mapping, every record and every feature entry; the mapping it
\* returns has the validated entity ids of the input as its keys.
C10_InputUnchanged ==
    Called("validate_entity_config") =>
        /\ values = arg
        /\ ret.raised = "" =>
               /\ {ret.v.v[i].key : i \in 1..Len(ret.v.v)} =
                      {EntityOf(arg.v[i].key) : i \in 1..Len(arg.v)}
               /\ \A i, j \in 1..Len(ret.v.v) : ret.v.v[i].key = ret.v.v[j].key => i = j

C10_Witness ==
    /\ Called("validate_entity_config")
    /\ IsDict(arg)
    /\ Len(arg.v) = 2
    /\ arg.v[1].key = Id_switch_upper
    /\ arg.v[2] = [key |-> Id_media_player,
                   value |-> PyDict([feature_list |->
                                 PyList(<<PyDict([feature |-> PyStr("on_off")]),
                                          PyDict([feature |-> PyStr("play_pause")])>>)])]
    /\ ret.raised = ""
    /\ ResultOf(Id_media_player).v["feature_list"] =
           PyDict([on_off |-> EmptyDict, play_pause |-> EmptyDict])
    /\ values = arg

====
